---- MODULE Spec2Model ----
(***************************************************************************)
(* Report generator for co-investors: the value parser and formatter       *)
(* (services/formatters.ts), the report preview (ReportPreview), the PDF   *)
(* generator (generatePdf) and the App component that drives them.         *)
(*                                                                         *)
(* Text is a sequence of one-character strings.  A JavaScript number is a  *)
(* decimal m * 10^-e kept normalised (no trailing zero in the fraction),   *)
(* so two equal values have one representation; binary rounding of IEEE    *)
(* doubles is not modelled.                                                *)
(***************************************************************************)
EXTENDS Integers, Sequences, FiniteSets, TLC

\* ------------------------------------------------------------------ bounds

\* Longest input text given to the parsers in the pure-function runs.
MaxLen == 3
\* Row count of the large sheet: above the preview's row cap.
MaxRows == 52
\* Most file parses in flight at once.
MaxPending == 2

\* ------------------------------------------------------- JavaScript values

\* typeof value === 'number': m * 10^-e
Num(m, e) == [t |-> "num", m |-> m, e |-> e, s |-> <<>>]
\* typeof value === 'string'
Str(s) == [t |-> "str", m |-> 0, e |-> 0, s |-> s]
\* A key the row does not hold.
Undefined == [t |-> "undefined", m |-> 0, e |-> 0, s |-> <<>>]
\* What the parsers return for a value they cannot parse.
Null == [t |-> "null", m |-> 0, e |-> 0, s |-> <<>>]
\* Number(...) and parseFloat(...) of text that is no number.
NaN == [t |-> "nan", m |-> 0, e |-> 0, s |-> <<>>]
\* Infinity and -Infinity (m is the sign).
Infinity == [t |-> "inf", m |-> 1, e |-> 0, s |-> <<>>]
NegInfinity == [t |-> "inf", m |-> -1, e |-> 0, s |-> <<>>]
\* typeof value === 'number'
IsNumberType(value) == value.t \in {"num", "nan", "inf"}

RECURSIVE Pow10(_)
Pow10(n) == IF n = 0 THEN 1 ELSE 10 * Pow10(n - 1)

Abs(x) == IF x < 0 THEN -x ELSE x

Max(a, b) == IF a >= b THEN a ELSE b

RECURSIVE Norm(_, _)
Norm(m, e) ==
  IF e > 0 /\ m % 10 = 0 THEN Norm(m \div 10, e - 1) ELSE Num(m, e)

\* a + b on numbers
Add(a, b) ==
  LET e == Max(a.e, b.e)
  IN  IF a.t = "nan" \/ b.t = "nan" THEN NaN
      ELSE IF a.t = "inf" /\ b.t = "inf" THEN (IF a.m = b.m THEN a ELSE NaN)
      ELSE IF a.t = "inf" THEN a
      ELSE IF b.t = "inf" THEN b
      ELSE Norm(a.m * Pow10(e - a.e) + b.m * Pow10(e - b.e), e)

\* -a
Neg(a) == [a EXCEPT !.m = -a.m]

\* x || 0 : null, NaN and 0 are falsy
OrZero(x) == IF (x.t = "num" /\ x.m # 0) \/ x.t = "inf" THEN x ELSE Num(0, 0)

\* value ?? ''
OrEmpty(v) == IF v.t \in {"undefined", "null"} THEN Str(<<>>) ELSE v

\* ------------------------------------------------------------------- text

Digits == <<"0", "1", "2", "3", "4", "5", "6", "7", "8", "9">>

IsDigit(c) == \E d \in 1..10 : Digits[d] = c

DigitVal(c) == (CHOOSE d \in 1..10 : Digits[d] = c) - 1

\* /\s/ on the characters the model uses
IsSpace(c) == c = " "

Includes(s, c) == \E i \in 1..Len(s) : s[i] = c

RECURSIVE TrimStart(_)
TrimStart(s) ==
  IF s # <<>> /\ IsSpace(Head(s)) THEN TrimStart(Tail(s)) ELSE s

RECURSIVE TrimEnd(_)
TrimEnd(s) ==
  IF s # <<>> /\ IsSpace(s[Len(s)]) THEN TrimEnd(SubSeq(s, 1, Len(s) - 1)) ELSE s

\* String.prototype.trim
Trim(s) == TrimEnd(TrimStart(s))

\* The decimal digits of a natural number.
RECURSIVE NatToText(_)
NatToText(n) ==
  IF n < 10 THEN <<Digits[n + 1]>>
  ELSE NatToText(n \div 10) \o <<Digits[(n % 10) + 1]>>

\* The digits of n, left-padded with zeros to width w.
RECURSIVE PadZero(_, _)
PadZero(s, w) == IF Len(s) >= w THEN s ELSE PadZero(<<"0">> \o s, w)

\* The value of a run of digits.
RECURSIVE DigitsToNat(_)
DigitsToNat(s) ==
  IF s = <<>> THEN 0
  ELSE 10 * DigitsToNat(SubSeq(s, 1, Len(s) - 1)) + DigitVal(s[Len(s)])

\* The longest prefix of s made of digits.
RECURSIVE DigitPrefix(_)
DigitPrefix(s) ==
  IF s # <<>> /\ IsDigit(Head(s)) THEN <<Head(s)>> \o DigitPrefix(Tail(s)) ELSE <<>>

\* String(n) of a number (no exponent form in the modelled range).
NumToText(n) ==
  LET a    == Abs(n.m)
      ip   == a \div Pow10(n.e)
      fp   == a % Pow10(n.e)
      sign == IF n.m < 0 THEN <<"-">> ELSE <<>>
      frac == IF n.e = 0 THEN <<>> ELSE <<".">> \o PadZero(NatToText(fp), n.e)
  IN  sign \o NatToText(ip) \o frac

\* String(value)
String(v) ==
  CASE v.t = "str" -> v.s
    [] v.t = "num" -> NumToText(v)
    [] v.t = "undefined" -> <<"u", "n", "d", "e", "f", "i", "n", "e", "d">>
    [] v.t = "null" -> <<"n", "u", "l", "l">>
    [] v.t = "inf" -> (IF v.m < 0 THEN <<"-">> ELSE <<>>)
                        \o <<"I", "n", "f", "i", "n", "i", "t", "y">>
    [] OTHER -> <<"N", "a", "N">>

Lowers == <<"a", "b", "c", "d", "e", "f", "g", "h", "i", "j", "k", "l", "m",
            "n", "o", "p", "q", "r", "s", "t", "u", "v", "w", "x", "y", "z">>

Uppers == <<"A", "B", "C", "D", "E", "F", "G", "H", "I", "J", "K", "L", "M",
            "N", "O", "P", "Q", "R", "S", "T", "U", "V", "W", "X", "Y", "Z">>

IsLower(c) == \E i \in 1..26 : Lowers[i] = c

IsUpper(c) == \E i \in 1..26 : Uppers[i] = c

LowerChar(c) ==
  IF IsUpper(c) THEN Lowers[CHOOSE i \in 1..26 : Uppers[i] = c] ELSE c

UpperChar(c) ==
  IF IsLower(c) THEN Uppers[CHOOSE i \in 1..26 : Lowers[i] = c] ELSE c

\* String.prototype.toLowerCase
toLowerCase(s) == [i \in 1..Len(s) |-> LowerChar(s[i])]

\* String.prototype.toUpperCase
toUpperCase(s) == [i \in 1..Len(s) |-> UpperChar(s[i])]

\* /\w/
IsWordChar(c) == IsLower(c) \/ IsUpper(c) \/ IsDigit(c) \/ c = "_"

\* The longest prefix of s without whitespace: what \S* matches.
RECURSIVE NonSpacePrefix(_)
NonSpacePrefix(s) ==
  IF s # <<>> /\ ~IsSpace(Head(s)) THEN <<Head(s)>> \o NonSpacePrefix(Tail(s))
  ELSE <<>>

\* ------------------------------------------------- services/formatters.ts

\* str.replace(/\w\S*/g, txt => txt.charAt(0).toUpperCase() + txt.substr(1).toLowerCase())
RECURSIVE ReplaceWords(_)
ReplaceWords(s) ==
  IF s = <<>> THEN <<>>
  ELSE IF IsWordChar(Head(s))
       THEN LET txt == NonSpacePrefix(s)
            IN  <<UpperChar(txt[1])>> \o toLowerCase(Tail(txt))
                  \o ReplaceWords(SubSeq(s, Len(txt) + 1, Len(s)))
       ELSE <<Head(s)>> \o ReplaceWords(Tail(s))

toTitleCase(str) == IF str = <<>> THEN <<>> ELSE ReplaceWords(str)

\* [0-9.-]
IsNumericChar(c) == IsDigit(c) \/ c = "." \/ c = "-"

\* value.replace(/[^0-9.-]+/g, '')
CleanNumeric(s) == SelectSeq(s, IsNumericChar)

\* The text before the first "." and the text after it.
DotAt(s) == IF Includes(s, ".") THEN CHOOSE i \in 1..Len(s) : s[i] = "." /\ \A j \in 1..(i - 1) : s[j] # "." ELSE 0

AllDigits(s) == \A i \in 1..Len(s) : IsDigit(s[i])

\* An unsigned decimal literal: digits, at most one ".", at least one digit.
UnsignedDecimal(s) ==
  LET d  == DotAt(s)
      ip == IF d = 0 THEN s ELSE SubSeq(s, 1, d - 1)
      fp == IF d = 0 THEN <<>> ELSE SubSeq(s, d + 1, Len(s))
  IN  IF AllDigits(ip) /\ AllDigits(fp) /\ Len(ip) + Len(fp) > 0
      THEN Norm(DigitsToNat(ip \o fp), Len(fp))
      ELSE NaN

\* Number(s) for text made of the characters 0-9 . - + (the whole text must be
\* one literal; the empty text is 0).
Number(s) ==
  IF s = <<>> THEN Num(0, 0)
  ELSE IF Head(s) = "-"
       THEN LET u == UnsignedDecimal(Tail(s)) IN IF u = NaN THEN NaN ELSE Neg(u)
       ELSE IF Head(s) = "+" THEN UnsignedDecimal(Tail(s))
       ELSE UnsignedDecimal(s)

ParseCurrencyOfEmptyIsZero(value) ==
  IF IsNumberType(value) THEN value
  ELSE IF value.t # "str" \/ Trim(value.s) = <<>> THEN Null
  ELSE LET isNegative    == Includes(value.s, "(") /\ Includes(value.s, ")")
           cleanedString == CleanNumeric(value.s)
           num           == Number(cleanedString)
       IN  IF num = NaN THEN Null
           ELSE IF isNegative /\ num.m > 0 THEN Neg(num)
           ELSE num

ParseCurrencyOfStringsOnly(value) ==
  IF value.t # "str" \/ Trim(value.s) = <<>> THEN Null
  ELSE LET isNegative    == Includes(value.s, "(") /\ Includes(value.s, ")")
           cleanedString == CleanNumeric(value.s)
       IN  IF cleanedString = <<>> \/ cleanedString = <<".">> \/ cleanedString = <<"-">>
           THEN Null
           ELSE LET num == Number(cleanedString)
                IN  IF num = NaN THEN Null
                    ELSE IF isNegative /\ num.m > 0 THEN Neg(num)
                    ELSE num

ParseCurrencyDoubleNegation(value) ==
  IF IsNumberType(value) THEN value
  ELSE IF value.t # "str" \/ Trim(value.s) = <<>> THEN Null
  ELSE LET isNegative    == Includes(value.s, "(") /\ Includes(value.s, ")")
           cleanedString == CleanNumeric(value.s)
       IN  IF cleanedString = <<>> \/ cleanedString = <<".">> \/ cleanedString = <<"-">>
           THEN Null
           ELSE LET num == Number(cleanedString)
                IN  IF num = NaN THEN Null
                    ELSE IF isNegative THEN Neg(num)
                    ELSE num

parseCurrency(value) ==
  IF IsNumberType(value) THEN value
  ELSE IF value.t # "str" \/ Trim(value.s) = <<>> THEN Null
  ELSE LET isNegative    == Includes(value.s, "(") /\ Includes(value.s, ")")
           cleanedString == CleanNumeric(value.s)
       IN  IF cleanedString = <<>> \/ cleanedString = <<".">> \/ cleanedString = <<"-">>
           THEN Null
           ELSE LET num == Number(cleanedString)
                IN  IF num = NaN THEN Null
                    ELSE IF isNegative /\ num.m > 0 THEN Neg(num)
                    ELSE num

\* |m| * 10^-e rounded to f fraction digits, half away from zero, as an
\* integer count of 10^-f.
RoundScaled(m, e, f) ==
  LET a == Abs(m)
  IN  IF e <= f THEN a * Pow10(f - e)
      ELSE (a + 5 * Pow10(e - f - 1)) \div Pow10(e - f)

\* Digits in groups of three separated by ",".
RECURSIVE Grouped(_)
Grouped(n) ==
  IF n < 1000 THEN NatToText(n)
  ELSE Grouped(n \div 1000) \o <<",">> \o PadZero(NatToText(n % 1000), 3)

IntlCurrencyAccounting(number) ==
  LET cents == RoundScaled(number.m, number.e, 2)
      text  == <<"$">> \o Grouped(cents \div 100) \o <<".">>
                 \o PadZero(NatToText(cents % 100), 2)
  IN  IF number.t = "nan" THEN <<"$", "N", "a", "N">>
      ELSE IF number.t = "inf" THEN <<"$", "Infinity">>
      ELSE IF number.m < 0 THEN <<"(">> \o text \o <<")">> ELSE text

\* new Intl.NumberFormat('en-US', {style: 'currency', currency: 'USD'}).format(number)
\* (the one character of the infinity sign is written "Infinity" here).
IntlCurrency(number) ==
  LET cents == RoundScaled(number.m, number.e, 2)
      sign  == IF number.m < 0 THEN <<"-">> ELSE <<>>
  IN  IF number.t = "nan" THEN <<"$", "N", "a", "N">>
      ELSE IF number.t = "inf" THEN sign \o <<"$", "Infinity">>
      ELSE sign \o <<"$">> \o Grouped(cents \div 100) \o <<".">>
             \o PadZero(NatToText(cents % 100), 2)

FormatCurrencyUnparseableAsZero(value) ==
  LET number == parseCurrency(value)
  IN  IF number = Null THEN IntlCurrency(Num(0, 0)) ELSE IntlCurrency(number)

formatCurrency(value) ==
  LET number == parseCurrency(value)
  IN  IF number = Null THEN String(OrEmpty(value)) ELSE IntlCurrency(number)

\* value.replace(/[%]/g, '')
NotPercentSign(c) == c # "%"

\* Whether text s starts with text p.
StartsWith(s, p) == Len(s) >= Len(p) /\ SubSeq(s, 1, Len(p)) = p

\* The largest decimal exponent of a finite number.
MaxExponent10 == 308

\* v * 10^x for a number v and an integer x: Infinity above the range of
\* finite numbers, 0 below it.
Scale10(v, x) ==
  IF v.m = 0 THEN v
  ELSE IF x > MaxExponent10 THEN (IF v.m < 0 THEN NegInfinity ELSE Infinity)
  ELSE IF x < -MaxExponent10 - 16 THEN Num(0, 0)
  ELSE IF x >= v.e THEN Num(v.m * Pow10(x - v.e), 0)
  ELSE Norm(v.m, v.e - x)

\* The digits after a leading ".", and what follows them.
FractionDigits(r) ==
  IF r # <<>> /\ Head(r) = "." THEN DigitPrefix(Tail(r)) ELSE <<>>

AfterFraction(r, fp) ==
  IF r # <<>> /\ Head(r) = "." THEN SubSeq(r, Len(fp) + 2, Len(r)) ELSE r

\* The exponent part at the start of r: e or E, an optional sign, digits.
\* Its digits (none when r starts with no exponent part) and its value.
ExponentDigits(r) ==
  IF r # <<>> /\ Head(r) \in {"e", "E"}
  THEN DigitPrefix(IF Len(r) > 1 /\ r[2] \in {"-", "+"} THEN SubSeq(r, 3, Len(r)) ELSE Tail(r))
  ELSE <<>>

ExponentValue(r, xd) ==
  IF Len(r) > 1 /\ r[2] = "-"
  THEN -(IF Len(xd) > 3 THEN 1000 ELSE DigitsToNat(xd))
  ELSE IF Len(xd) > 3 THEN 1000 ELSE DigitsToNat(xd)

\* The number a mantissa (integer digits ip, fraction digits fp) and the text
\* r after it stand for; NaN when the mantissa has no digit.
DecimalWithExponent(ip, fp, r) ==
  IF Len(ip) + Len(fp) = 0 THEN NaN
  ELSE IF ExponentDigits(r) = <<>> THEN Norm(DigitsToNat(ip \o fp), Len(fp))
  ELSE Scale10(Norm(DigitsToNat(ip \o fp), Len(fp)), ExponentValue(r, ExponentDigits(r)))

\* An unsigned literal at the start of u: "Infinity" or a decimal literal.
UnsignedPrefix(u, ip) ==
  IF StartsWith(u, <<"I", "n", "f", "i", "n", "i", "t", "y">>) THEN Infinity
  ELSE DecimalWithExponent(
         ip, FractionDigits(SubSeq(u, Len(ip) + 1, Len(u))),
         AfterFraction(SubSeq(u, Len(ip) + 1, Len(u)),
                       FractionDigits(SubSeq(u, Len(ip) + 1, Len(u)))))

SignedPrefix(t) ==
  IF t # <<>> /\ Head(t) = "-" THEN Neg(UnsignedPrefix(Tail(t), DigitPrefix(Tail(t))))
  ELSE IF t # <<>> /\ Head(t) = "+" THEN UnsignedPrefix(Tail(t), DigitPrefix(Tail(t)))
  ELSE UnsignedPrefix(t, DigitPrefix(t))

\* parseFloat(s): the longest leading literal of s after leading whitespace:
\* a sign, then "Infinity" or a decimal literal (digits, at most one ".", at
\* least one digit) with an exponent part when one follows; NaN when there is
\* none.
parseFloat(s) == SignedPrefix(TrimStart(s))

parsePercent(value) ==
  IF IsNumberType(value) THEN value
  ELSE IF value.t # "str" \/ Trim(value.s) = <<>> THEN Null
  ELSE LET cleanedString == Trim(SelectSeq(value.s, NotPercentSign))
           num           == parseFloat(cleanedString)
       IN  IF num = NaN THEN Null ELSE num

\* ----------------------------------------------------------- header names

\* A header is named by a string; Spelling gives its characters, which is
\* what the case-insensitive comparisons and the title-casing read.
Spelling(h) ==
  CASE h = "Loan Account"    -> <<"L","o","a","n"," ","A","c","c","o","u","n","t">>
    [] h = "Borrower Name"   -> <<"B","o","r","r","o","w","e","r"," ","N","a","m","e">>
    [] h = "Interest Rate"   -> <<"I","n","t","e","r","e","s","t"," ","R","a","t","e">>
    [] h = "Maturity Date"   -> <<"M","a","t","u","r","i","t","y"," ","D","a","t","e">>
    [] h = "Term Left"       -> <<"T","e","r","m"," ","L","e","f","t">>
    [] h = "Regular Payment" -> <<"R","e","g","u","l","a","r"," ","P","a","y","m","e","n","t">>
    [] h = "Loan Balance"    -> <<"L","o","a","n"," ","B","a","l","a","n","c","e">>
    [] h = "Percent Owned"   -> <<"P","e","r","c","e","n","t"," ","O","w","n","e","d">>
    [] h = "loan balance"    -> <<"l","o","a","n"," ","b","a","l","a","n","c","e">>
    [] h = "INTEREST RATE"   -> <<"I","N","T","E","R","E","S","T"," ","R","A","T","E">>
    [] h = "Notes"           -> <<"N","o","t","e","s">>

HeaderNames ==
  {"Loan Account", "Borrower Name", "Interest Rate", "Maturity Date", "Term Left",
   "Regular Payment", "Loan Balance", "Percent Owned", "loan balance",
   "INTEREST RATE", "Notes"}

\* header.toLowerCase(), computed once per name
LowerOf == [h \in HeaderNames |-> toLowerCase(Spelling(h))]

\* toTitleCase(header), computed once per name
TitleOf == [h \in HeaderNames |-> toTitleCase(Spelling(h))]

\* h.toLowerCase() === targetHeader.toLowerCase()
SameHeader(h, targetHeader) == LowerOf[h] = LowerOf[targetHeader]

\* What find returns when no element matches (undefined, falsy).
NoHeader == "undefined"

\* headers.findIndex(h => h.toLowerCase() === targetHeader.toLowerCase()),
\* counted from 1; 0 stands for JavaScript's -1.
findHeaderIndex(headers, targetHeader) ==
  IF \E i \in 1..Len(headers) : SameHeader(headers[i], targetHeader)
  THEN CHOOSE i \in 1..Len(headers) :
         /\ SameHeader(headers[i], targetHeader)
         /\ \A j \in 1..(i - 1) : ~SameHeader(headers[j], targetHeader)
  ELSE 0

FindLastHeader(headers, targetHeader) ==
  IF \E i \in 1..Len(headers) : SameHeader(headers[i], targetHeader)
  THEN headers[CHOOSE i \in 1..Len(headers) :
                 /\ SameHeader(headers[i], targetHeader)
                 /\ \A j \in (i + 1)..Len(headers) : ~SameHeader(headers[j], targetHeader)]
  ELSE NoHeader

\* headers.find(h => h.toLowerCase() === targetHeader.toLowerCase())
findHeader(headers, targetHeader) ==
  LET i == findHeaderIndex(headers, targetHeader)
  IN  IF i = 0 THEN NoHeader ELSE headers[i]

\* row[header]
Get(row, header) == IF header \in DOMAIN row THEN row[header] ELSE Undefined

\* ['Interest Rate', 'Maturity Date', ...].map(h => h.toLowerCase())
columnsToAlignRight ==
  {LowerOf[h] : h \in {"Interest Rate", "Maturity Date", "Term Left",
                       "Regular Payment", "Loan Balance", "Percent Owned"}}

\* lowerCaseHeader === 'regular payment' || lowerCaseHeader === 'loan balance'
isCurrency(header) ==
  LowerOf[header] \in {LowerOf["Regular Payment"], LowerOf["Loan Balance"]}

\* --------------------------------------------------------------- totals

\* data.reduce((acc, row) => acc + (parseCurrency(row[header]) || 0), 0) over
\* rows lo..hi.  The sum is taken by halves, which keeps the evaluation shallow;
\* addition of exact decimals is associative, so this is the value of the
\* code's left-to-right reduce.
RECURSIVE ReduceCurrency(_, _, _, _)
ReduceCurrency(data, header, lo, hi) ==
  IF lo > hi THEN Num(0, 0)
  ELSE IF lo = hi THEN Add(Num(0, 0), OrZero(parseCurrency(Get(data[lo], header))))
  ELSE LET mid == (lo + hi) \div 2
       IN  Add(ReduceCurrency(data, header, lo, mid),
               ReduceCurrency(data, header, mid + 1, hi))

\* data.reduce((acc, row) => acc + (parsePercent(row[header]) || 0), 0)
RECURSIVE ReducePercent(_, _, _, _)
ReducePercent(data, header, lo, hi) ==
  IF lo > hi THEN Num(0, 0)
  ELSE IF lo = hi THEN Add(Num(0, 0), OrZero(parsePercent(Get(data[lo], header))))
  ELSE LET mid == (lo + hi) \div 2
       IN  Add(ReducePercent(data, header, lo, mid),
               ReducePercent(data, header, mid + 1, hi))

\* A quotient n / d of a number by a positive count, kept exact.
Quot(n, d) == [n |-> n, d |-> d]

\* The preview shows at most this many body rows: data.slice(0, 50).
PreviewRowCap == 50

SliceOneMore(data, n) == SubSeq(data, 1, IF Len(data) < n + 1 THEN Len(data) ELSE n + 1)

\* data.slice(0, n)
Slice(data, n) == SubSeq(data, 1, IF Len(data) < n THEN Len(data) ELSE n)

\* The record of four aggregates.
Aggregates(rp, lb, py, n) ==
  [regularPaymentTotal |-> rp, loanBalanceTotal |-> lb, portfolioYield |-> py,
   loanCount |-> n]

TotalsOfShownRows(headers, data) ==
  LET regularPaymentHeader == findHeader(headers, "Regular Payment")
      loanBalanceHeader    == findHeader(headers, "Loan Balance")
      interestRateHeader   == findHeader(headers, "Interest Rate")
      loanCount            == Len(data)
      shown                == Len(Slice(data, PreviewRowCap))
  IN  Aggregates(
        IF regularPaymentHeader # NoHeader
        THEN ReduceCurrency(data, regularPaymentHeader, 1, shown) ELSE Num(0, 0),
        IF loanBalanceHeader # NoHeader
        THEN ReduceCurrency(data, loanBalanceHeader, 1, shown) ELSE Num(0, 0),
        IF interestRateHeader # NoHeader /\ loanCount > 0
        THEN Quot(ReducePercent(data, interestRateHeader, 1, Len(data)), loanCount)
        ELSE Quot(Num(0, 0), 1),
        loanCount)

\* The rows whose rate parses.
ParsedRates(data, header) ==
  Cardinality({i \in 1..Len(data) : parsePercent(Get(data[i], header)).t = "num"})

TotalsMeanOfParsedRates(headers, data) ==
  LET regularPaymentHeader == findHeader(headers, "Regular Payment")
      loanBalanceHeader    == findHeader(headers, "Loan Balance")
      interestRateHeader   == findHeader(headers, "Interest Rate")
      loanCount            == Len(data)
  IN  Aggregates(
        IF regularPaymentHeader # NoHeader
        THEN ReduceCurrency(data, regularPaymentHeader, 1, Len(data)) ELSE Num(0, 0),
        IF loanBalanceHeader # NoHeader
        THEN ReduceCurrency(data, loanBalanceHeader, 1, Len(data)) ELSE Num(0, 0),
        IF interestRateHeader # NoHeader /\ ParsedRates(data, interestRateHeader) > 0
        THEN Quot(ReducePercent(data, interestRateHeader, 1, Len(data)),
                  ParsedRates(data, interestRateHeader))
        ELSE Quot(Num(0, 0), 1),
        loanCount)

\* ReportPreview: const totals = useMemo(...)
totals(headers, data) ==
  LET regularPaymentHeader == findHeader(headers, "Regular Payment")
      loanBalanceHeader    == findHeader(headers, "Loan Balance")
      interestRateHeader   == findHeader(headers, "Interest Rate")
      loanCount            == Len(data)
  IN  Aggregates(
        IF regularPaymentHeader # NoHeader
        THEN ReduceCurrency(data, regularPaymentHeader, 1, Len(data)) ELSE Num(0, 0),
        IF loanBalanceHeader # NoHeader
        THEN ReduceCurrency(data, loanBalanceHeader, 1, Len(data)) ELSE Num(0, 0),
        IF interestRateHeader # NoHeader /\ loanCount > 0
        THEN Quot(ReducePercent(data, interestRateHeader, 1, Len(data)), loanCount)
        ELSE Quot(Num(0, 0), 1),
        loanCount)

\* generatePdf: "Calculate Totals"
pdfTotals(headers, data) ==
  LET regularPaymentHeader == findHeader(headers, "Regular Payment")
      loanBalanceHeader    == findHeader(headers, "Loan Balance")
      interestRateHeader   == findHeader(headers, "Interest Rate")
      loanCount            == Len(data)
      hasInterestRate      == interestRateHeader # NoHeader
  IN  Aggregates(
        IF regularPaymentHeader # NoHeader
        THEN ReduceCurrency(data, regularPaymentHeader, 1, Len(data)) ELSE Num(0, 0),
        IF loanBalanceHeader # NoHeader
        THEN ReduceCurrency(data, loanBalanceHeader, 1, Len(data)) ELSE Num(0, 0),
        IF hasInterestRate /\ loanCount > 0
        THEN Quot(ReducePercent(data, interestRateHeader, 1, Len(data)), loanCount)
        ELSE Quot(Num(0, 0), 1),
        loanCount)

\* x.toFixed(4) of a quotient: the nearest multiple of 10^-4 of |x| (the larger
\* one on a tie), with the sign of x in front.
toFixed4(q) ==
  LET a    == Abs(q.n.m)
      A    == IF q.n.e <= 4 THEN a * Pow10(4 - q.n.e) ELSE a
      D    == IF q.n.e <= 4 THEN q.d ELSE q.d * Pow10(q.n.e - 4)
      k    == (2 * A + D) \div (2 * D)
      sign == IF q.n.m < 0 THEN <<"-">> ELSE <<>>
  IN  sign \o NatToText(k \div 10000) \o <<".">> \o PadZero(NatToText(k % 10000), 4)

\* `Portfolio Yield: ${portfolioYield.toFixed(4)}% (${loanCount} loans)`
yieldText(portfolioYield, loanCount) ==
  <<"P","o","r","t","f","o","l","i","o"," ","Y","i","e","l","d",":"," ">>
    \o toFixed4(portfolioYield) \o <<"%"," ","(">> \o NatToText(loanCount)
    \o <<" ","l","o","a","n","s",")">>

TotalsLabel == <<"T","o","t","a","l","s">>

\* ------------------------------------------------------- ReportPreview

\* A rendered cell: its text and its alignment.
Cell(text, align) == [text |-> text, align |-> align]

\* The <td> of one body cell.
PreviewBodyCell(row, header) ==
  Cell(IF isCurrency(header) THEN formatCurrency(Get(row, header))
       ELSE String(OrEmpty(Get(row, header))),
       IF LowerOf[header] \in columnsToAlignRight THEN "right" ELSE "left")

\* The <td> of the footer at position index (from 1; the code's index 0 is 1).
PreviewFootCell(headers, tot, index) ==
  LET regularPaymentIndex == findHeaderIndex(headers, "Regular Payment")
      loanBalanceIndex    == findHeaderIndex(headers, "Loan Balance")
      hasInterestRate     == \E i \in 1..Len(headers) : SameHeader(headers[i], "Interest Rate")
  IN  IF index = 1 THEN Cell(TotalsLabel, "left")
      ELSE IF index = 2 /\ hasInterestRate
           THEN Cell(yieldText(tot.portfolioYield, tot.loanCount), "left")
      ELSE IF index = regularPaymentIndex
           THEN Cell(formatCurrency(tot.regularPaymentTotal), "right")
      ELSE IF index = loanBalanceIndex
           THEN Cell(formatCurrency(tot.loanBalanceTotal), "right")
      ELSE Cell(<<>>, "none")

\* What ReportPreview renders for its props: the placeholder when no column is
\* selected, else the table (head, body, foot) and the row-count indicator.
ReportPreview(headers, data) ==
  LET tot   == totals(headers, data)
      shown == Slice(data, PreviewRowCap)
  IN  IF Len(headers) = 0
      THEN [table |-> FALSE, head |-> <<>>, body |-> <<>>, foot |-> <<>>,
            indicator |-> FALSE, indicatorCount |-> 0]
      ELSE [table |-> TRUE,
            head  |-> [j \in 1..Len(headers) |->
                         Cell(TitleOf[headers[j]],
                              IF LowerOf[headers[j]] \in columnsToAlignRight
                              THEN "right" ELSE "left")],
            body  |-> [i \in 1..Len(shown) |->
                         [j \in 1..Len(headers) |-> PreviewBodyCell(shown[i], headers[j])]],
            foot  |-> [j \in 1..Len(headers) |-> PreviewFootCell(headers, tot, j)],
            indicator |-> Len(data) > PreviewRowCap,
            indicatorCount |-> Len(data)]

\* --------------------------------------------------------- generatePdf

\* One entry of tableData: the formatted text for a currency column, else the
\* raw value itself (row[header] ?? '').
PdfBodyCell(row, header) ==
  IF isCurrency(header) THEN Str(formatCurrency(Get(row, header)))
  ELSE OrEmpty(Get(row, header))

\* footerRow: new Array(headers.length).fill(''), then the writes of the code
\* in the code's order (a later write replaces an earlier one).
footerRow(headers, tot) ==
  LET regularPaymentIndex == findHeaderIndex(headers, "Regular Payment")
      loanBalanceIndex    == findHeaderIndex(headers, "Loan Balance")
      hasInterestRate     == findHeader(headers, "Interest Rate") # NoHeader
      f0 == [j \in 1..Len(headers) |-> Cell(<<>>, "none")]
      f1 == IF Len(headers) > 0
            THEN [f0 EXCEPT ![1] = Cell(TotalsLabel, "left")] ELSE f0
      f2 == IF Len(headers) > 1 /\ hasInterestRate
            THEN [f1 EXCEPT ![2] =
                    Cell(yieldText(tot.portfolioYield, tot.loanCount), "left")]
            ELSE f1
      f3 == IF regularPaymentIndex # 0
            THEN [f2 EXCEPT ![regularPaymentIndex] =
                    Cell(formatCurrency(tot.regularPaymentTotal), "right")]
            ELSE f2
  IN  IF loanBalanceIndex # 0
      THEN [f3 EXCEPT ![loanBalanceIndex] =
              Cell(formatCurrency(tot.loanBalanceTotal), "right")]
      ELSE f3

GeneratePdfColumnsReversed(title, headers, data) ==
  LET tot == pdfTotals(headers, data)
  IN  [title |-> title,
       head  |-> [j \in 1..Len(headers) |-> TitleOf[headers[j]]],
       body  |-> [i \in 1..Len(data) |->
                    [j \in 1..Len(headers) |->
                       PdfBodyCell(data[i], headers[Len(headers) + 1 - j])]],
       foot  |-> footerRow(headers, tot),
       columnStyles |-> {j \in 1..Len(headers) : LowerOf[headers[j]] \in columnsToAlignRight}]

\* The options generatePdf hands to autoTable, and the title it draws.
generatePdf(title, headers, data) ==
  LET tot == pdfTotals(headers, data)
  IN  [title |-> title,
       head  |-> [j \in 1..Len(headers) |-> TitleOf[headers[j]]],
       body  |-> [i \in 1..Len(data) |->
                    [j \in 1..Len(headers) |-> PdfBodyCell(data[i], headers[j])]],
       foot  |-> footerRow(headers, tot),
       columnStyles |-> {j \in 1..Len(headers) : LowerOf[headers[j]] \in columnsToAlignRight}]

\* ------------------------------------------------------ the files loaded

\* The workbooks a user can pick.  Columns is the first sheet's column order
\* and JsonData what XLSX.utils.sheet_to_json returns for it: one object per
\* data row, keyed by column header, a cell the row leaves empty having no key.
\* Cell values are text or numbers (TableRow is { [key: string]: any }).
FileNames ==
  {"loans.xlsx", "mixed.xlsx", "twins.xlsx", "big.xlsx", "fifty.xlsx", "empty.xlsx"}

\* The sheets of a few rows, and the sheets at and above the preview's row cap.
SmallFiles == {"loans.xlsx", "mixed.xlsx", "twins.xlsx", "empty.xlsx"}

LargeFiles == {"big.xlsx", "fifty.xlsx"}

Columns(f) ==
  CASE f = "loans.xlsx" -> <<"Interest Rate", "Regular Payment", "Loan Balance">>
    [] f = "mixed.xlsx" -> <<"loan balance", "Interest Rate", "Loan Account">>
    [] f = "twins.xlsx" -> <<"loan balance", "Loan Balance", "Notes">>
    [] f = "big.xlsx"   -> <<"Loan Account", "Regular Payment">>
    [] f = "fifty.xlsx" -> <<"Loan Balance">>
    [] f = "empty.xlsx" -> <<"Loan Account">>

JsonData(f) ==
  CASE f = "loans.xlsx" ->
         << ("Interest Rate" :> Str(<<"1","0","%">>))
              @@ ("Regular Payment" :> Str(<<"$","1","0","0",".","0","0">>))
              @@ ("Loan Balance" :> Str(<<"(","1",",","2","3","4",".","5","6",")">>)),
            ("Interest Rate" :> Str(<<"b","a","d">>))
              @@ ("Regular Payment" :> Str(<<"a","b","c">>))
              @@ ("Loan Balance" :> Num(50, 0)),
            ("Interest Rate" :> Num(85, 1))
              @@ ("Regular Payment" :> Num(50, 0))
              @@ ("Loan Balance" :> Str(<<"$","1",",","0","0","0">>)) >>
    [] f = "mixed.xlsx" ->
         << ("loan balance" :> Str(<<"(","5",")">>))
              @@ ("Interest Rate" :> Str(<<"1","0","%">>))
              @@ ("Loan Account" :> Num(1001, 0)),
            ("loan balance" :> Str(<<"N","/","A">>))
              @@ ("Interest Rate" :> Str(<<"b","a","d">>))
              @@ ("Loan Account" :> Str(<<"A","-","7">>)) >>
    [] f = "twins.xlsx" ->
         << ("loan balance" :> Str(<<"(","5",")">>))
              @@ ("Loan Balance" :> Str(<<"$","7">>)),
            ("loan balance" :> Str(<<"1">>))
              @@ ("Loan Balance" :> Str(<<"2">>))
              @@ ("Notes" :> Str(<<"l","a","t","e">>)) >>
    [] f = "big.xlsx" ->
         [i \in 1..MaxRows |->
            ("Loan Account" :> Str(NatToText(1000 + i)))
              @@ ("Regular Payment" :>
                    CASE i = 1 -> Str(<<"$","1","0","0",".","0","0">>)
                      [] i = 2 -> Str(<<"a","b","c">>)
                      [] i = 3 -> Num(50, 0)
                      [] OTHER -> Str(<<"$">> \o NatToText(i)))]
    [] f = "fifty.xlsx" ->
         [i \in 1..PreviewRowCap |->
            ("Loan Balance" :> Str(<<"(">> \o NatToText(i) \o <<".","5",")">>))]
    [] f = "empty.xlsx" -> <<>>

\* -------------------------------------------------- services/excelParser.ts

\* Object.keys(row): the row's keys in column order.
ObjectKeys(f, row) ==
  LET cols == Columns(f)
      Held(c) == c \in DOMAIN row
  IN  SelectSeq(cols, Held)

\* What the promise of parseExcelFile resolves to.
parseExcelFile(f) ==
  LET jsonData == JsonData(f)
  IN  IF Len(jsonData) = 0 THEN [headers |-> <<>>, data |-> <<>>]
      ELSE [headers |-> ObjectKeys(f, jsonData[1]), data |-> jsonData]

\* ------------------------------------------------------------- App.tsx

DEFAULT_SELECTED_HEADERS ==
  <<"Loan Account", "Borrower Name", "Interest Rate", "Maturity Date", "Term Left",
    "Regular Payment", "Loan Balance">>

\* array.includes(x)
InSeq(x, seq) == \E i \in 1..Len(seq) : seq[i] = x

\* What a download step hands to the browser; None when the step saves nothing.
None == [kind |-> "none"]

VARIABLES
  file,               \* useState<File | null>: a file name, or "null"
  allHeaders,         \* useState<string[]>
  data,               \* useState<TableRow[]>
  selectedHeaders,    \* useState<string[]>
  isLoadingFile,
  isGeneratingPdf,
  isGeneratingImage,
  error,              \* "null" or the message shown in the banner
  reportTitle,
  pending,            \* the files whose parseExcelFile promise is not settled
  pdfCall,            \* the awaited generatePdf promise: "idle", "resolved", "rejected"
  imgCall,            \* handleGenerateImage between its awaits: "idle", "waiting", "detached"
  saved,              \* the file the last step downloaded
  input,              \* pure-function runs: the value given to the function
  called,             \* pure-function runs: the function applied, or "none"
  output              \* pure-function runs: what the function returned

vars ==
  <<file, allHeaders, data, selectedHeaders, isLoadingFile, isGeneratingPdf,
    isGeneratingImage, error, reportTitle, pending, pdfCall, imgCall, saved,
    input, called, output>>

pureVars == <<input, called, output>>

appVars ==
  <<file, allHeaders, data, selectedHeaders, isLoadingFile, isGeneratingPdf,
    isGeneratingImage, error, reportTitle, pending, pdfCall, imgCall, saved>>

NoFile == "null"
NoError == "null"
\* The messages App sets, their accented letters written unaccented.
ParseErrorMessage == "Error al procesar el archivo. Asegurate de que es un archivo XLSX o XLS valido."
PdfErrorMessage == "No se pudo generar el PDF. Intentalo de nuevo."
ImageErrorMessage == "No se pudo generar la imagen. Intentalo de nuevo."
LoadedTitle == "Account Portfolio (Lender)"

\* ReportPreview is rendered while a file is held, and holds a <table> (the
\* element tableRef points to) while a column is selected.
Preview == ReportPreview(selectedHeaders, data)

TableMounted == file # NoFile /\ Len(selectedHeaders) > 0

isProcessing == isLoadingFile \/ isGeneratingPdf \/ isGeneratingImage

\* The table element a waiting handleGenerateImage holds leaves the document
\* when the step unmounts the table.
ImgCallAfter(file2, selected2) ==
  IF imgCall = "waiting" /\ ~(file2 # NoFile /\ Len(selected2) > 0)
  THEN "detached" ELSE imgCall

AppInit ==
  /\ file = NoFile
  /\ allHeaders = <<>>
  /\ data = <<>>
  /\ selectedHeaders = <<>>
  /\ isLoadingFile = FALSE
  /\ isGeneratingPdf = FALSE
  /\ isGeneratingImage = FALSE
  /\ error = NoError
  /\ reportTitle = ""
  /\ pending = {}
  /\ pdfCall = "idle"
  /\ imgCall = "idle"
  /\ saved = None

Init ==
  /\ AppInit
  /\ input = Undefined
  /\ called = "none"
  /\ output = Undefined

\* handleFileSelect up to its await: FileUpload is rendered while no file is held.
handleFileSelect(selectedFile) ==
  /\ file = NoFile
  /\ selectedFile \notin pending
  /\ Cardinality(pending) < MaxPending
  /\ isLoadingFile' = TRUE
  /\ error' = NoError
  /\ file' = selectedFile
  /\ reportTitle' = LoadedTitle
  /\ pending' = pending \cup {selectedFile}
  /\ imgCall' = ImgCallAfter(selectedFile, selectedHeaders)
  /\ saved' = None
  /\ UNCHANGED <<allHeaders, data, selectedHeaders, isGeneratingPdf, isGeneratingImage,
                 pdfCall, pureVars>>

\* handleFileSelect after its await, the promise resolved: the try block's
\* rest, then finally.
parseResolved(f) ==
  /\ f \in pending
  /\ LET parsed == parseExcelFile(f)
         defaultSelection == SelectSeq(DEFAULT_SELECTED_HEADERS,
                                       LAMBDA h : InSeq(h, parsed.headers))
     IN  /\ allHeaders' = parsed.headers
         /\ data' = parsed.data
         /\ selectedHeaders' = IF Len(defaultSelection) > 0 THEN defaultSelection ELSE <<>>
         /\ imgCall' = ImgCallAfter(file, selectedHeaders')
  /\ isLoadingFile' = FALSE
  /\ pending' = pending \ {f}
  /\ saved' = None
  /\ UNCHANGED <<file, isGeneratingPdf, isGeneratingImage, error, reportTitle, pdfCall,
                 pureVars>>

\* handleFileSelect after its await, the promise rejected: catch (setError,
\* then handleReset, whose setError(null) is the later update), then finally.
parseRejected(f) ==
  /\ f \in pending
  /\ file' = NoFile
  /\ allHeaders' = <<>>
  /\ data' = <<>>
  /\ selectedHeaders' = <<>>
  /\ error' = NoError
  /\ isLoadingFile' = FALSE
  /\ isGeneratingPdf' = FALSE
  /\ isGeneratingImage' = FALSE
  /\ reportTitle' = ""
  /\ pending' = pending \ {f}
  /\ imgCall' = ImgCallAfter(NoFile, <<>>)
  /\ saved' = None
  /\ UNCHANGED <<pdfCall, pureVars>>

\* The "Cambiar Archivo" button, shown while a file is held.
handleReset ==
  /\ file # NoFile
  /\ file' = NoFile
  /\ allHeaders' = <<>>
  /\ data' = <<>>
  /\ selectedHeaders' = <<>>
  /\ error' = NoError
  /\ isLoadingFile' = FALSE
  /\ isGeneratingPdf' = FALSE
  /\ isGeneratingImage' = FALSE
  /\ reportTitle' = ""
  /\ imgCall' = ImgCallAfter(NoFile, <<>>)
  /\ saved' = None
  /\ UNCHANGED <<pending, pdfCall, pureVars>>

\* prev.filter(h => h !== header)
Without(prev, header) == SelectSeq(prev, LAMBDA h : h # header)

\* A toggle that appends the header whether or not it is already selected.
ToggleAlwaysAppends(header) ==
  /\ file # NoFile
  /\ InSeq(header, allHeaders)
  /\ selectedHeaders' = Append(selectedHeaders, header)
  /\ imgCall' = ImgCallAfter(file, selectedHeaders')
  /\ saved' = None
  /\ UNCHANGED <<file, allHeaders, data, isLoadingFile, isGeneratingPdf, isGeneratingImage,
                 error, reportTitle, pending, pdfCall, pureVars>>

\* A toggle that puts a newly selected header first.
ToggleUpdaterPrepends(prev, header) ==
  IF InSeq(header, prev) THEN Without(prev, header) ELSE <<header>> \o prev

\* The updater handed to setSelectedHeaders:
\* prev => prev.includes(header) ? prev.filter(h => h !== header) : [...prev, header]
ToggleUpdater(prev, header) ==
  IF InSeq(header, prev) THEN Without(prev, header) ELSE Append(prev, header)

\* A column chip of ColumnSelector, one per entry of allHeaders.
handleHeaderSelectionChange(header) ==
  /\ file # NoFile
  /\ InSeq(header, allHeaders)
  /\ selectedHeaders' = ToggleUpdater(selectedHeaders, header)
  /\ imgCall' = ImgCallAfter(file, selectedHeaders')
  /\ saved' = None
  /\ UNCHANGED <<file, allHeaders, data, isLoadingFile, isGeneratingPdf, isGeneratingImage,
                 error, reportTitle, pending, pdfCall, pureVars>>

handleSelectAll ==
  /\ file # NoFile
  /\ selectedHeaders' = allHeaders
  /\ imgCall' = ImgCallAfter(file, selectedHeaders')
  /\ saved' = None
  /\ UNCHANGED <<file, allHeaders, data, isLoadingFile, isGeneratingPdf, isGeneratingImage,
                 error, reportTitle, pending, pdfCall, pureVars>>

handleDeselectAll ==
  /\ file # NoFile
  /\ selectedHeaders' = <<>>
  /\ imgCall' = ImgCallAfter(file, selectedHeaders')
  /\ saved' = None
  /\ UNCHANGED <<file, allHeaders, data, isLoadingFile, isGeneratingPdf, isGeneratingImage,
                 error, reportTitle, pending, pdfCall, pureVars>>

\* The "Generar PDF" button (disabled while nothing is selected or a busy flag
\* is set), past the handler's early return.  generatePdf runs to doc.save
\* without suspending; it throws when the PDF library fails.
handleGeneratePdf ==
  /\ file # NoFile
  /\ Len(selectedHeaders) > 0 /\ ~isProcessing
  /\ ~(Len(selectedHeaders) = 0 \/ Len(data) = 0)
  /\ pdfCall = "idle"
  /\ isGeneratingPdf' = TRUE
  /\ error' = NoError
  /\ \/ /\ pdfCall' = "resolved"
        /\ saved' = [kind |-> "pdf",
                     doc |-> generatePdf(IF reportTitle # "" THEN reportTitle ELSE "Informe",
                                         selectedHeaders, data)]
     \/ /\ pdfCall' = "rejected"
        /\ saved' = None
  /\ UNCHANGED <<file, allHeaders, data, selectedHeaders, isLoadingFile, isGeneratingImage,
                 reportTitle, pending, imgCall, pureVars>>

\* handleGeneratePdf after its await: catch when the promise rejected, finally.
pdfSettled ==
  /\ pdfCall # "idle"
  /\ error' = IF pdfCall = "rejected" THEN PdfErrorMessage ELSE error
  /\ isGeneratingPdf' = FALSE
  /\ pdfCall' = "idle"
  /\ saved' = None
  /\ UNCHANGED <<file, allHeaders, data, selectedHeaders, isLoadingFile, isGeneratingImage,
                 reportTitle, pending, imgCall, pureVars>>

\* The "Descargar como Imagen" button, past the handler's early return, up to
\* its first await.  The table's container is its parent <div>, never null.
handleGenerateImage ==
  /\ file # NoFile
  /\ Len(selectedHeaders) > 0 /\ ~isProcessing
  /\ ~(Len(selectedHeaders) = 0 \/ Len(data) = 0 \/ ~TableMounted)
  /\ imgCall = "idle"
  /\ isGeneratingImage' = TRUE
  /\ error' = NoError
  /\ imgCall' = "waiting"
  /\ saved' = None
  /\ UNCHANGED <<file, allHeaders, data, selectedHeaders, isLoadingFile, isGeneratingPdf,
                 reportTitle, pending, pdfCall, pureVars>>

\* handleGenerateImage after its awaits: html2canvas(tableElement) draws the
\* table element as the document holds it now (the element ReportPreview
\* rendered), and the link is clicked; or html2canvas rejects (always, for an
\* element that left the document); then finally.
imageSettled ==
  /\ imgCall # "idle"
  /\ \/ /\ imgCall = "waiting"
        /\ saved' = [kind |-> "png", table |-> Preview]
        /\ error' = error
     \/ /\ saved' = None
        /\ error' = ImageErrorMessage
  /\ isGeneratingImage' = FALSE
  /\ imgCall' = "idle"
  /\ UNCHANGED <<file, allHeaders, data, selectedHeaders, isLoadingFile, isGeneratingPdf,
                 reportTitle, pending, pdfCall, pureVars>>

\* The steps of App when the user picks among the given files.
AppNext(files) ==
  \/ \E f \in files : handleFileSelect(f)
  \/ \E f \in files : parseResolved(f)
  \/ \E f \in files : parseRejected(f)
  \/ handleReset
  \/ \E h \in HeaderNames : handleHeaderSelectionChange(h)
  \/ handleSelectAll
  \/ handleDeselectAll
  \/ handleGeneratePdf
  \/ pdfSettled
  \/ handleGenerateImage
  \/ imageSettled

Next == AppNext(SmallFiles)

Spec == Init /\ [][Next]_vars

\* App with the sheets at and above the row cap.
RowsNext == AppNext(LargeFiles)

SpecRows == Init /\ [][RowsNext]_vars

\* ------------------------------------------- the parsers as pure functions

\* The characters of the texts given to the parsers.
ParserAlphabet == {"0", "5", ".", "-", "(", ")", " ", "$", "%"}

\* Every text of at most MaxLen characters, and the texts the documentation
\* names.
ParserTexts ==
  UNION {[1..n -> ParserAlphabet] : n \in 0..MaxLen}
    \cup {<<"(","1",",","2","3","4",".","5","6",")">>,
          <<"-","1",",","2","3","4",".","5","6">>,
          <<"$","1",",","2","3","4",".","5","6">>,
          <<"(","-","5",")">>, <<"a","b","c">>,
          <<"1","-","2">>, <<"1",".","2",".","3">>, <<"N","/","A">>,
          <<"9",".","2","0","%">>, <<"1","0","%">>, <<"b","a","d">>,
          <<"5","e","2">>, <<"1","e","9","9","9">>, <<" ","1","0","a">>,
          <<"I","n","f","i","n","i","t","y">>,
          <<"-","I","n","f","i","n","i","t","y","%">>}

ParserInputs ==
  {Str(s) : s \in ParserTexts} \cup {Num(0, 0), Num(-1234, 2), Num(85, 1), Undefined, Null}

ParseInit ==
  /\ AppInit
  /\ input \in ParserInputs
  /\ called = "none"
  /\ output = Undefined

callParseCurrency ==
  /\ called = "none"
  /\ called' = "parseCurrency"
  /\ output' = parseCurrency(input)
  /\ UNCHANGED <<input, appVars>>

\* parseCurrency applied to what parseCurrency returned.
callParseCurrencyAgain ==
  /\ called = "parseCurrency"
  /\ called' = "parseCurrency(parseCurrency)"
  /\ output' = parseCurrency(output)
  /\ UNCHANGED <<input, appVars>>

callParsePercent ==
  /\ called = "none"
  /\ called' = "parsePercent"
  /\ output' = parsePercent(input)
  /\ UNCHANGED <<input, appVars>>

\* parsePercent applied to what parsePercent returned.
callParsePercentAgain ==
  /\ called = "parsePercent"
  /\ called' = "parsePercent(parsePercent)"
  /\ output' = parsePercent(output)
  /\ UNCHANGED <<input, appVars>>

callFormatCurrency ==
  /\ called = "none"
  /\ called' = "formatCurrency"
  /\ output' = Str(formatCurrency(input))
  /\ UNCHANGED <<input, appVars>>

ParseNext ==
  \/ callParseCurrency
  \/ callParseCurrencyAgain
  \/ callParsePercent
  \/ callParsePercentAgain
  \/ callFormatCurrency

SpecParse == ParseInit /\ [][ParseNext]_vars

\* The characters of the texts given to toTitleCase.
TitleAlphabet == {"a", "B", " ", "-", "("}

\* Every text of at most MaxLen characters over them, the names of the
\* columns, and no text at all.
TitleInputs ==
  {Str(s) : s \in UNION {[1..n -> TitleAlphabet] : n \in 0..MaxLen}}
    \cup {Str(Spelling(h)) : h \in HeaderNames}
    \cup {Undefined, Null}

TitleInit ==
  /\ AppInit
  /\ input \in TitleInputs
  /\ called = "none"
  /\ output = Undefined

\* toTitleCase(str); if (!str) return '' covers undefined, null and ''.
callToTitleCase ==
  /\ called = "none"
  /\ called' = "toTitleCase"
  /\ output' = Str(IF input.t = "str" THEN toTitleCase(input.s) ELSE <<>>)
  /\ UNCHANGED <<input, appVars>>

TitleNext == callToTitleCase

SpecTitle == TitleInit /\ [][TitleNext]_vars

\* ------------------------------------------------------------ properties

\* What is on screen and what was just downloaded.
PreviewShown == file # NoFile /\ Preview.table

PdfSaved == saved.kind = "pdf"

PngSaved == saved.kind = "png"

Selected(targetHeader) == findHeader(selectedHeaders, targetHeader) # NoHeader

\* The sum of a sequence of integers.
RECURSIVE SumInts(_, _, _)
SumInts(xs, lo, hi) ==
  IF lo > hi THEN 0
  ELSE IF lo = hi THEN xs[lo]
  ELSE SumInts(xs, lo, (lo + hi) \div 2) + SumInts(xs, (lo + hi) \div 2 + 1, hi)

\* A parse result in ten-thousandths, an unparseable one counting as zero.
TenThousandths(parsed) ==
  IF parsed.t = "num" THEN parsed.m * Pow10(4 - parsed.e) ELSE 0

\* The sum over every row of the parsed currency value under a header.
CurrencySum(rows, header) ==
  Norm(SumInts([i \in 1..Len(rows) |-> TenThousandths(parseCurrency(Get(rows[i], header)))],
               1, Len(rows)), 4)

\* The sum over every row of the parsed percent under a header.
PercentSum(rows, header) ==
  Norm(SumInts([i \in 1..Len(rows) |-> TenThousandths(parsePercent(Get(rows[i], header)))],
               1, Len(rows)), 4)

RoleTotal(targetHeader) ==
  IF Selected(targetHeader)
  THEN CurrencySum(data, findHeader(selectedHeaders, targetHeader))
  ELSE Num(0, 0)

MeanRate ==
  IF Selected("Interest Rate") /\ Len(data) > 0
  THEN Quot(PercentSum(data, findHeader(selectedHeaders, "Interest Rate")), Len(data))
  ELSE Quot(Num(0, 0), 1)

\* C1: the Regular Payment total and the Loan Balance total are each the sum,
\* over all rows (not only the rows the preview shows), of parseCurrency of the
\* row's value under the role's header, an unparseable value counting as 0, and
\* are 0 when the header is absent; in the preview and in the PDF alike.
TotalsSumEveryRow ==
  /\ totals(selectedHeaders, data).regularPaymentTotal = RoleTotal("Regular Payment")
  /\ totals(selectedHeaders, data).loanBalanceTotal = RoleTotal("Loan Balance")
  /\ pdfTotals(selectedHeaders, data).regularPaymentTotal = RoleTotal("Regular Payment")
  /\ pdfTotals(selectedHeaders, data).loanBalanceTotal = RoleTotal("Loan Balance")
  /\ PdfSaved =>
       \A j \in 1..Len(selectedHeaders) :
         /\ j = findHeaderIndex(selectedHeaders, "Regular Payment")
              => saved.doc.foot[j].text = formatCurrency(RoleTotal("Regular Payment"))
         /\ j = findHeaderIndex(selectedHeaders, "Loan Balance")
              => saved.doc.foot[j].text = formatCurrency(RoleTotal("Loan Balance"))

\* A PDF was saved of a sheet longer than the preview's cap, with Regular
\* Payment selected, a row whose payment does not parse and a row whose
\* payment is a number; the total is that of all the rows.
TotalsSumEveryRowReached ==
  /\ PdfSaved
  /\ Len(data) > PreviewRowCap
  /\ Selected("Regular Payment")
  /\ \E i \in 1..Len(data) : parseCurrency(Get(data[i], "Regular Payment")).t = "null"
  /\ \E i \in 1..Len(data) : Get(data[i], "Regular Payment").t = "num"
  /\ pdfTotals(selectedHeaders, data).regularPaymentTotal
       = Add(CurrencySum(Slice(data, PreviewRowCap), "Regular Payment"),
             CurrencySum(SubSeq(data, PreviewRowCap + 1, Len(data)), "Regular Payment"))
  /\ CurrencySum(SubSeq(data, PreviewRowCap + 1, Len(data)), "Regular Payment").m > 0
  /\ CurrencySum(SubSeq(data, 1, 3), "Regular Payment") = Num(150, 0)

\* C2: Loan Count is the number of rows; Portfolio Yield is the sum over all
\* rows of parsePercent of the Interest Rate value (unparseable counting as 0)
\* divided by Loan Count when an Interest Rate header is present and there is a
\* row, else 0; in the preview and in the PDF alike.
YieldIsMeanOverAllRows ==
  /\ totals(selectedHeaders, data).loanCount = Len(data)
  /\ pdfTotals(selectedHeaders, data).loanCount = Len(data)
  /\ totals(selectedHeaders, data).portfolioYield = MeanRate
  /\ pdfTotals(selectedHeaders, data).portfolioYield = MeanRate
  /\ PreviewShown /\ Selected("Interest Rate") /\ Len(selectedHeaders) > 1
       => Preview.foot[2].text = yieldText(MeanRate, Len(data))

\* Two rows with rates "10%" and "bad" are on screen with Interest Rate
\* selected: the yield is 10 / 2, shown as 5.0000.
YieldIsMeanOverAllRowsReached ==
  /\ PreviewShown
  /\ Selected("Interest Rate")
  /\ Len(data) = 2
  /\ Get(data[1], "Interest Rate") = Str(<<"1","0","%">>)
  /\ Get(data[2], "Interest Rate") = Str(<<"b","a","d">>)
  /\ totals(selectedHeaders, data).portfolioYield = Quot(Num(10, 0), 2)
  /\ toFixed4(totals(selectedHeaders, data).portfolioYield) = <<"5",".","0","0","0","0">>

\* The documented content of the footer cell at position j (from 1).  Where a
\* total's column is also the first column, or the second with Interest Rate
\* selected, the documented contents collide; labelFirst says which one the
\* cell then holds.
DocumentedFootText(j, labelFirst) ==
  LET regularPaymentIndex == findHeaderIndex(selectedHeaders, "Regular Payment")
      loanBalanceIndex    == findHeaderIndex(selectedHeaders, "Loan Balance")
      label  == IF j = 1 THEN TotalsLabel ELSE yieldText(MeanRate, Len(data))
      total  == IF j = regularPaymentIndex
                THEN formatCurrency(RoleTotal("Regular Payment"))
                ELSE formatCurrency(RoleTotal("Loan Balance"))
      isLabel == j = 1 \/ (j = 2 /\ Selected("Interest Rate"))
      isTotal == j \in {regularPaymentIndex, loanBalanceIndex}
  IN  IF isLabel /\ isTotal THEN (IF labelFirst THEN label ELSE total)
      ELSE IF isLabel THEN label
      ELSE IF isTotal THEN total
      ELSE <<>>

FooterAsDocumented(foot, labelFirst) ==
  /\ Len(foot) = Len(selectedHeaders)
  /\ \A j \in 1..Len(foot) : foot[j].text = DocumentedFootText(j, labelFirst)

\* C3: in the preview and in the PDF the footer has the label "Totals" at
\* position 0, the yield text at position 1 when Interest Rate is present, the
\* formatted Regular Payment and Loan Balance totals at the positions of their
\* headers, and every other cell empty, also when Regular Payment or Loan
\* Balance is at position 0 or 1: one layout, whichever content it gives a
\* cell that is both a label's and a total's, describes both footers.
FooterLayoutHolds ==
  \E labelFirst \in BOOLEAN :
    /\ PreviewShown => FooterAsDocumented(Preview.foot, labelFirst)
    /\ PdfSaved => FooterAsDocumented(saved.doc.foot, labelFirst)

\* C4: the totals row of the PDF equals the totals row of the preview cell by
\* cell, for the same selected headers and rows.
PdfFooterEqualsPreviewFooter ==
  PdfSaved =>
    /\ Len(saved.doc.foot) = Len(Preview.foot)
    /\ \A j \in 1..Len(Preview.foot) : saved.doc.foot[j].text = Preview.foot[j].text

\* The rows cut down to the selected columns.
Projected(rows, headers) ==
  [i \in 1..Len(rows) |->
     [h \in {k \in DOMAIN rows[i] : InSeq(k, headers)} |-> rows[i][h]]]

\* C5: the footer depends only on the selected headers: a role whose header is
\* deselected shows no total and does not change the other footer cells, and a
\* selected Loan Balance column shows its total at its own position.
FooterFollowsSelection ==
  LET regularPaymentIndex == findHeaderIndex(selectedHeaders, "Regular Payment")
      loanBalanceIndex    == findHeaderIndex(selectedHeaders, "Loan Balance")
      Follows(foot, footOfSelectedOnly) ==
        /\ foot = footOfSelectedOnly
        /\ regularPaymentIndex = 0 =>
             \A j \in 1..Len(foot) :
               j \notin {1, loanBalanceIndex} /\ ~(j = 2 /\ Selected("Interest Rate"))
                 => foot[j].text = <<>>
        /\ loanBalanceIndex # 0 =>
             foot[loanBalanceIndex].text = formatCurrency(RoleTotal("Loan Balance"))
  IN  /\ PreviewShown =>
           Follows(Preview.foot,
                   ReportPreview(selectedHeaders, Projected(data, selectedHeaders)).foot)
      /\ PdfSaved =>
           Follows(saved.doc.foot,
                   generatePdf("", selectedHeaders, Projected(data, selectedHeaders)).foot)

\* C6: the preview shows the first min(n, 50) of the n rows, in order, and the
\* indicator "Mostrando las primeras 50 de n filas" exactly when n > 50; the
\* PDF holds all n rows.
PreviewCapsRows ==
  /\ PreviewShown =>
       /\ Len(Preview.body) = (IF Len(data) < 50 THEN Len(data) ELSE 50)
       /\ \A i \in 1..Len(Preview.body) :
            Preview.body[i] =
              [j \in 1..Len(selectedHeaders) |-> PreviewBodyCell(data[i], selectedHeaders[j])]
       /\ Preview.indicator <=> Len(data) > 50
       /\ Preview.indicator => Preview.indicatorCount = Len(data)
  /\ PdfSaved => Len(saved.doc.body) = Len(data)

\* A sheet of more than 50 rows is on screen, capped and with the indicator,
\* and its PDF was saved with every row.
PreviewCapsRowsReached ==
  /\ PreviewShown
  /\ PdfSaved
  /\ Len(data) > 50
  /\ Len(Preview.body) = 50
  /\ Preview.indicator
  /\ Len(saved.doc.body) = Len(data)

\* A sheet of exactly 50 rows is on screen: all of them, and no indicator.
PreviewAtCapReached ==
  /\ PreviewShown
  /\ Len(data) = 50
  /\ Len(Preview.body) = 50
  /\ ~Preview.indicator

\* C7: the downloaded image has no row limit: it holds every data row, with
\* the cells the PDF body has.
ImageHoldsEveryRow ==
  PngSaved =>
    /\ saved.table.table
    /\ Len(saved.table.body) = Len(data)
    /\ \A i \in 1..Len(data) : \A j \in 1..Len(selectedHeaders) :
         saved.table.body[i][j].text = String(PdfBodyCell(data[i], selectedHeaders[j]))

\* C8: columns appear in the order of the selected headers and rows in their
\* original order: the body cell at row i, column j is derived from row i and
\* the j-th selected header, in the preview and in the PDF.
CellsFollowSelectionOrder ==
  /\ PreviewShown =>
       /\ \A i \in 1..Len(Preview.body) : \A j \in 1..Len(selectedHeaders) :
            /\ Len(Preview.body[i]) = Len(selectedHeaders)
            /\ Preview.body[i][j].text =
              (IF isCurrency(selectedHeaders[j])
               THEN formatCurrency(Get(data[i], selectedHeaders[j]))
               ELSE String(OrEmpty(Get(data[i], selectedHeaders[j]))))
       /\ \A j \in 1..Len(selectedHeaders) :
            Preview.head[j].text = TitleOf[selectedHeaders[j]]
  /\ PdfSaved =>
       /\ Len(saved.doc.body) = Len(data)
       /\ \A i \in 1..Len(data) : \A j \in 1..Len(selectedHeaders) :
            /\ Len(saved.doc.body[i]) = Len(selectedHeaders)
            /\ String(saved.doc.body[i][j]) =
                 (IF isCurrency(selectedHeaders[j])
                  THEN formatCurrency(Get(data[i], selectedHeaders[j]))
                  ELSE String(OrEmpty(Get(data[i], selectedHeaders[j]))))
       /\ \A j \in 1..Len(selectedHeaders) : saved.doc.head[j] = TitleOf[selectedHeaders[j]]

\* A PDF was saved, and the preview is on screen, of several rows with the
\* selected columns in another order than the sheet's.
CellsFollowSelectionOrderReached ==
  /\ PreviewShown
  /\ PdfSaved
  /\ Len(data) > 1
  /\ \E i, j \in 1..Len(selectedHeaders) : \E a, b \in 1..Len(allHeaders) :
       /\ i < j /\ b < a
       /\ selectedHeaders[i] = allHeaders[a] /\ selectedHeaders[j] = allHeaders[b]
       /\ saved.doc.body[1][i] # saved.doc.body[1][j]
       /\ saved.doc.body[1] # saved.doc.body[2]

\* The display string documented for a body cell.
DisplayString(row, header) ==
  IF LowerOf[header] \in {toLowerCase(Spelling("Regular Payment")),
                          toLowerCase(Spelling("Loan Balance"))}
  THEN formatCurrency(Get(row, header))
  ELSE String(OrEmpty(Get(row, header)))

\* C9: a body cell is formatted as currency exactly when its header is
\* "Regular Payment" or "Loan Balance" without regard to case, and is the plain
\* string of the raw value (the empty string for a missing one) otherwise; the
\* preview and the PDF produce the same display string for a cell, also when
\* the raw value is a number.
CellsAreDisplayStrings ==
  /\ PreviewShown =>
       \A i \in 1..Len(Preview.body) : \A j \in 1..Len(selectedHeaders) :
         Preview.body[i][j].text = DisplayString(data[i], selectedHeaders[j])
  /\ PdfSaved =>
       \A i \in 1..Len(saved.doc.body) : \A j \in 1..Len(selectedHeaders) :
         saved.doc.body[i][j] = Str(DisplayString(data[i], selectedHeaders[j]))

\* C10: parseCurrency negates the parsed number exactly when the text holds
\* both "(" and ")" and the parsed number is greater than 0; a number already
\* negative is not negated again.
NegatesOnlyPositiveInParentheses ==
  called = "parseCurrency" /\ input.t = "str" /\ output.t = "num" =>
    LET num == Number(CleanNumeric(input.s))
    IN  /\ num.t = "num"
        /\ output = (IF Includes(input.s, "(") /\ Includes(input.s, ")") /\ num.m > 0
                     THEN Neg(num) ELSE num)
        /\ Includes(input.s, "(") /\ Includes(input.s, ")") => output.m <= 0

\* parseCurrency was given "(-5)" and returned -5.
NegatesOnlyPositiveInParenthesesReached ==
  /\ called = "parseCurrency"
  /\ input = Str(<<"(","-","5",")">>)
  /\ output = Num(-5, 0)

\* A decimal literal over the characters 0-9 . - : an optional leading "-",
\* then digits with at most one "." among them and at least one digit.
IsDecimalLiteral(s) ==
  LET body == IF s # <<>> /\ s[1] = "-" THEN Tail(s) ELSE s
  IN  /\ \A i \in 1..Len(body) : body[i] # "-"
      /\ Cardinality({i \in 1..Len(body) : body[i] = "."}) <= 1
      /\ \E i \in 1..Len(body) : IsDigit(body[i])

\* C11: parseCurrency returns Unparseable (null, which is not 0) when the
\* input is neither a number nor a string, is a whitespace-only string, strips
\* to "", "." or "-", or strips to a residue that is no valid number; for every
\* other string it returns a number; and it never returns 0 for an input
\* holding no digit.
UnparseableIsNotZero ==
  called = "parseCurrency" /\ ~IsNumberType(input) =>
    LET stripped == CleanNumeric(input.s)
        bad == \/ input.t # "str"
               \/ \A i \in 1..Len(input.s) : input.s[i] = " "
               \/ stripped \in {<<>>, <<".">>, <<"-">>}
               \/ ~IsDecimalLiteral(stripped)
    IN  /\ bad => output = Null /\ output # Num(0, 0)
        /\ ~bad => output.t = "num"
        /\ (\A i \in 1..Len(input.s) : ~IsDigit(input.s[i])) => output # Num(0, 0)

\* parseCurrency was given "1.2.3" and returned null.
UnparseableIsNotZeroReached ==
  /\ called = "parseCurrency"
  /\ input = Str(<<"1", ".", "2", ".", "3">>)
  /\ output = Null

\* What is left of a text once every "%" is removed and the ends are trimmed.
PercentRemainder(s) == Trim(SelectSeq(s, LAMBDA c : c # "%"))

\* C12: for a string, parsePercent removes every "%", trims, and parses the
\* remainder as a number; it returns Unparseable whenever the result is not a
\* finite number (also for empty and whitespace-only strings) and the number
\* otherwise ("9.20%" gives 9.2).
PercentIsFiniteOrUnparseable ==
  called = "parsePercent" /\ input.t = "str" =>
    LET rest == PercentRemainder(input.s)
    IN  /\ output = Null \/ output.t = "num"
        /\ rest = <<>> => output = Null
        /\ (\A i \in 1..Len(rest) : IsNumericChar(rest[i])) /\ IsDecimalLiteral(rest)
             => output = Number(rest)

\* C13: parseCurrency and parsePercent return a numeric input unchanged, so
\* parsing twice is parsing once whenever the first parse yields a number.
ParsingIsIdempotent ==
  /\ called = "parseCurrency" /\ IsNumberType(input) => output = input
  /\ called = "parsePercent" /\ IsNumberType(input) => output = input
  /\ called = "parseCurrency(parseCurrency)" /\ IsNumberType(parseCurrency(input))
       => output = parseCurrency(input)
  /\ called = "parsePercent(parsePercent)" /\ IsNumberType(parsePercent(input))
       => output = parsePercent(input)

\* parseCurrency was applied twice to "(1,234.56)": -1234.56 both times.
ParsingIsIdempotentReached ==
  /\ called = "parseCurrency(parseCurrency)"
  /\ input = Str(<<"(", "1", ",", "2", "3", "4", ".", "5", "6", ")">>)
  /\ parseCurrency(input) = Num(-123456, 2)
  /\ output = Num(-123456, 2)

\* C14: formatCurrency never raises, whatever the input (string, number, null,
\* undefined), and when parseCurrency of the input is Unparseable it returns
\* the input's own text unchanged, the empty text for null and undefined.
UnparseableFormatsAsItself ==
  called = "formatCurrency" =>
    /\ output.t = "str"
    /\ \A i \in 1..Len(output.s) : output.s[i] \in STRING
    /\ parseCurrency(input) = Null =>
         output.s = (IF input.t \in {"undefined", "null"} THEN <<>> ELSE input.s)

\* formatCurrency was given "N/A" and returned "N/A".
UnparseableFormatsAsItselfReached ==
  /\ called = "formatCurrency"
  /\ input = Str(<<"N", "/", "A">>)
  /\ parseCurrency(input) = Null
  /\ output = Str(<<"N", "/", "A">>)

\* A text of the shape $d,ddd,ddd.dd : a "$", then digits in groups of three
\* from the right with "," between the groups, a "." and two digits.
IsDollarText(s) ==
  LET n == Len(s)
  IN  /\ n >= 5
      /\ s[1] = "$"
      /\ s[n - 2] = "."
      /\ IsDigit(s[n - 1]) /\ IsDigit(s[n])
      /\ \A i \in 2..(n - 3) :
           IF (n - 3 - i) % 4 = 3 THEN s[i] = "," ELSE IsDigit(s[i])
      /\ IsDigit(s[2])
      /\ n > 5 => s[2] # "0"

\* The amount, in cents, a dollar text shows.
CentsShown(s) == DigitsToNat(SelectSeq(s, IsDigit))

\* C15: when parseCurrency of the input yields a number, formatCurrency
\* returns a text with a "$", thousands separators and exactly two decimal
\* places, with a leading "-" for a negative value and never parentheses, also
\* when the input had parentheses; the text shows the value to the nearest cent.
CurrencyTextShape ==
  called = "formatCurrency" /\ parseCurrency(input).t = "num" =>
    LET number == parseCurrency(input)
        s      == output.s
        signed == s # <<>> /\ s[1] = "-"
        a      == IF number.m < 0 THEN -number.m ELSE number.m
        gap    == CentsShown(s) * Pow10(number.e) - 100 * a
    IN  /\ IsDollarText(IF signed THEN Tail(s) ELSE s)
        /\ ~Includes(s, "(") /\ ~Includes(s, ")")
        /\ number.m < 0 => signed
        /\ number.m > 0 => ~signed
        /\ 2 * gap <= Pow10(number.e) /\ -2 * gap <= Pow10(number.e)

\* formatCurrency was given "(1,234.56)" and returned "-$1,234.56".
CurrencyTextShapeReached ==
  /\ called = "formatCurrency"
  /\ input = Str(<<"(", "1", ",", "2", "3", "4", ".", "5", "6", ")">>)
  /\ output = Str(<<"-", "$", "1", ",", "2", "3", "4", ".", "5", "6">>)

\* Each maximal run of non-whitespace characters with its first character
\* upper-cased and the rest lower-cased; whitespace as it is.
RunsCapitalized(s) ==
  [i \in 1..Len(s) |->
     IF s[i] = " " THEN " "
     ELSE IF i = 1 \/ s[i - 1] = " " THEN UpperChar(s[i])
     ELSE LowerChar(s[i])]

\* C16: toTitleCase upper-cases the very first character of each maximal run
\* of non-whitespace characters and lower-cases the rest of the run, leaving
\* whitespace untouched (a punctuated or hyphenated token is one word); empty
\* or absent input gives the empty string.
TitleCaseByRuns ==
  called = "toTitleCase" =>
    output = Str(IF input.t = "str" THEN RunsCapitalized(input.s) ELSE <<>>)

\* The elements of a sequence.
Range(seq) == {seq[i] : i \in 1..Len(seq)}

\* C17: in every table parseExcelFile produces, each row's keys are among the
\* returned headers and no header name occurs twice; an empty sheet gives an
\* empty header list and an empty row list.
RowKeysAmongHeaders ==
  /\ \A i \in 1..Len(data) : DOMAIN data[i] \subseteq Range(allHeaders)
  /\ \A i, j \in 1..Len(allHeaders) : allHeaders[i] = allHeaders[j] => i = j
  /\ \A f \in pending \cup {file} :
       f # NoFile /\ JsonData(f) = <<>> =>
         parseExcelFile(f) = [headers |-> <<>>, data |-> <<>>]

\* The positions of the selected headers whose lower-cased name is the
\* lower-cased name of a role, and the first of them (0 when there is none).
RoleMatches(role) ==
  {j \in 1..Len(selectedHeaders) :
     LowerOf[selectedHeaders[j]] = LowerOf[role]}

FirstMatch(role) ==
  IF RoleMatches(role) = {} THEN 0
  ELSE CHOOSE j \in RoleMatches(role) : \A k \in RoleMatches(role) : j <= k

\* The sum of the column at the first match of a role (0 when there is none).
FirstMatchSum(role) ==
  IF FirstMatch(role) = 0 THEN Num(0, 0)
  ELSE CurrencySum(data, selectedHeaders[FirstMatch(role)])

\* C18: for each role the header used is the first header, in list order,
\* whose lower-cased name is the role's lower-cased name; the totals are summed
\* from that header and the footer shows a role's total at that header's
\* position, also when two headers differ only in case.
RoleIsFirstMatch ==
  /\ \A role \in {"Regular Payment", "Loan Balance", "Interest Rate"} :
       /\ findHeaderIndex(selectedHeaders, role) = FirstMatch(role)
       /\ findHeader(selectedHeaders, role) =
            (IF FirstMatch(role) = 0 THEN NoHeader ELSE selectedHeaders[FirstMatch(role)])
  /\ \A tot \in {totals(selectedHeaders, data), pdfTotals(selectedHeaders, data)} :
       /\ tot.regularPaymentTotal = FirstMatchSum("Regular Payment")
       /\ tot.loanBalanceTotal = FirstMatchSum("Loan Balance")
       /\ tot.portfolioYield =
            (IF FirstMatch("Interest Rate") = 0 \/ Len(data) = 0 THEN Quot(Num(0, 0), 1)
             ELSE Quot(PercentSum(data, selectedHeaders[FirstMatch("Interest Rate")]),
                       Len(data)))
  /\ PdfSaved =>
       /\ FirstMatch("Regular Payment") # 0 =>
            saved.doc.foot[FirstMatch("Regular Payment")].text
              = formatCurrency(FirstMatchSum("Regular Payment"))
       /\ FirstMatch("Loan Balance") # 0 =>
            saved.doc.foot[FirstMatch("Loan Balance")].text
              = formatCurrency(FirstMatchSum("Loan Balance"))
  /\ \A foot \in (IF PreviewShown THEN {Preview.foot} ELSE {})
                    \cup (IF PdfSaved THEN {saved.doc.foot} ELSE {}) :
       \A j \in 1..Len(foot) : \A role \in {"Regular Payment", "Loan Balance"} :
         /\ j \in RoleMatches(role) /\ foot[j].align = "right"
              => j = FirstMatch(role) /\ foot[j].text = formatCurrency(FirstMatchSum(role))
         /\ j \in RoleMatches(role) /\ j # FirstMatch(role) /\ j > 2
              => foot[j].text = <<>>

\* A PDF was saved with two selected headers that differ only in case and
\* whose columns have different sums: the total shown is the first one's.
RoleIsFirstMatchReached ==
  /\ PdfSaved
  /\ PreviewShown
  /\ Cardinality(RoleMatches("Loan Balance")) = 2
  /\ \E j \in RoleMatches("Loan Balance") :
       /\ j # FirstMatch("Loan Balance")
       /\ CurrencySum(data, selectedHeaders[j]) # FirstMatchSum("Loan Balance")
  /\ selectedHeaders[FirstMatch("Loan Balance")] = "Loan Balance"
  /\ saved.doc.foot[FirstMatch("Loan Balance")].text
       = formatCurrency(FirstMatchSum("Loan Balance"))

\* C19: under every interleaving of file selection, parse completion, reset
\* and the column buttons, whenever no file is held, allHeaders, data and
\* selectedHeaders are all empty.
NoFileMeansNoTable ==
  file = NoFile => allHeaders = <<>> /\ data = <<>> /\ selectedHeaders = <<>>

\* C20: when file loads overlap, once every pending parse has settled the
\* headers, the rows and the selection are those of the file now held, never
\* those of an earlier file whose parse finished later.
TableIsOfFileHeld ==
  pending = {} /\ file # NoFile =>
    /\ allHeaders = parseExcelFile(file).headers
    /\ data = parseExcelFile(file).data
    /\ Range(selectedHeaders) \subseteq Range(parseExcelFile(file).headers)

\* C21: when parseExcelFile rejects inside handleFileSelect, the handler leaves
\* the app in its initial table state (no file, no headers, no rows, no
\* selection, not loading) with the parse-failure message in error, so that
\* the error banner is shown.
RejectedParseShowsError ==
  [][(\E f \in FileNames : parseRejected(f)) =>
       /\ file' = NoFile
       /\ allHeaders' = <<>> /\ data' = <<>> /\ selectedHeaders' = <<>>
       /\ isLoadingFile' = FALSE
       /\ error' = ParseErrorMessage]_vars

\* No entry of seq occurs at two positions.
NoDuplicates(seq) == \A i, j \in 1..Len(seq) : seq[i] = seq[j] => i = j

\* C22: in every reachable state of the app, selectedHeaders has no duplicate
\* entry and every entry of selectedHeaders is an entry of allHeaders, whatever
\* the sequence of file loads, resets, toggles, select-all and deselect-all.
SelectionWithinHeaders ==
  /\ NoDuplicates(selectedHeaders)
  /\ \A i \in 1..Len(selectedHeaders) : InSeq(selectedHeaders[i], allHeaders)

\* A selection only toggling can produce: at least two headers, one of them
\* outside the default selection, and not the whole header list.
SelectionWithinHeadersReached ==
  /\ file # NoFile
  /\ NoDuplicates(allHeaders)
  /\ Len(selectedHeaders) >= 2
  /\ selectedHeaders # allHeaders
  /\ \E i \in 1..Len(selectedHeaders) :
       ~InSeq(selectedHeaders[i], DEFAULT_SELECTED_HEADERS)

\* C23: every busy flag tracks its operation: while a file parse, a PDF
\* generation or an image generation started by the app is still pending, the
\* corresponding flag (isLoadingFile, isGeneratingPdf, isGeneratingImage) is
\* true, so that the export buttons stay disabled.
BusyFlagsTrackOperations ==
  /\ pending # {} => isLoadingFile
  /\ pdfCall # "idle" => isGeneratingPdf
  /\ imgCall # "idle" => isGeneratingImage

\* after is before with its entry h taken out, the other entries in their order.
TakenOut(before, after, h) ==
  LET pos == CHOOSE i \in 1..Len(before) : before[i] = h
  IN  /\ Len(after) = Len(before) - 1
      /\ \A i \in 1..Len(after) : after[i] = before[IF i < pos THEN i ELSE i + 1]

\* after is before with h put behind its last entry.
PutLast(before, after, h) ==
  /\ Len(after) = Len(before) + 1
  /\ after[Len(after)] = h
  /\ \A i \in 1..Len(before) : after[i] = before[i]

\* C24: handleHeaderSelectionChange(h) changes only the membership of h: a
\* selected h is removed and the others keep their relative order, an
\* unselected h is appended at the end and the others keep their order, and
\* allHeaders and data are unchanged.  So a second toggle of a header that was
\* unselected restores the exact sequence, and a second toggle of a header that
\* was selected keeps the same set with h in the last position.
ToggleChangesOnlyOneHeader ==
  [][\A h \in HeaderNames :
       handleHeaderSelectionChange(h) =>
         LET twice == ToggleUpdater(selectedHeaders', h)
         IN  /\ allHeaders' = allHeaders
             /\ data' = data
             /\ IF InSeq(h, selectedHeaders)
                THEN /\ TakenOut(selectedHeaders, selectedHeaders', h)
                     /\ PutLast(selectedHeaders', twice, h)
                     /\ Range(twice) = Range(selectedHeaders)
                ELSE /\ PutLast(selectedHeaders, selectedHeaders', h)
                     /\ twice = selectedHeaders]_vars

\* The headers of the default selection, all still selected, in another order:
\* a selected header was toggled off and on again.
ToggleChangesOnlyOneHeaderReached ==
  LET defaultSelection == SelectSeq(DEFAULT_SELECTED_HEADERS,
                                    LAMBDA h : InSeq(h, allHeaders))
  IN  /\ file # NoFile
      /\ Len(defaultSelection) >= 2
      /\ Range(selectedHeaders) = Range(defaultSelection)
      /\ Len(selectedHeaders) = Len(defaultSelection)
      /\ selectedHeaders # defaultSelection
      /\ selectedHeaders[Len(selectedHeaders)] = defaultSelection[1]


====
